---- MODULE Spec2Model ----
(***************************************************************************)
(* State machine of the AI Video Composer front end: the App component's   *)
(* state (Library, Composition, pipeline flags, Process Log, artifact),    *)
(* the PreviewCanvas component's state (prompt, dedup markers) and the     *)
(* asynchronous handlers suspended on an await.  A handler that awaits is  *)
(* split at its suspension points; each piece runs atomically on the       *)
(* event loop.  A suspended handler keeps the props and state of the       *)
(* render in which it was started (JavaScript closures), so those are      *)
(* stored in the record of the suspended handler.                          *)
(***************************************************************************)
EXTENDS Integers, Sequences, FiniteSets, Bags, TLC

VARIABLES
    assets,            \* App: Library collection (useState<MediaAsset[]>)
    selectedAssets,    \* App: Composition collection
    isProcessing,      \* App: busy flag
    output,            \* App: Process Log, the lines of the output string
    command,           \* App: command text of the last response, NoCommand = null
    videoUrl,          \* App: object URL of the held artifact, NoUrl = null
    prompt,            \* PreviewCanvas: text of the prompt field
    importedVideoUrl,  \* PreviewCanvas: dedup marker of import
    reloadedVideoUrl,  \* PreviewCanvas: dedup marker of reload
    requests,          \* number of generation requests in flight (processVideo awaits)
    tasks,             \* bag of the import / reload handlers suspended on an await
    nextId,            \* number of asset ids generated so far
    nextUrl,           \* number of object URLs created for artifacts so far
    objectUrls,        \* ids of the assets whose thumbnail is an object URL not revoked
    videoHandles,      \* number of object URLs of dropped videos (video.src) not revoked
    last               \* observation: the handler that ran in the last step

vars == <<assets, selectedAssets, isProcessing, output, command, videoUrl, prompt,
          importedVideoUrl, reloadedVideoUrl, requests, tasks, nextId, nextUrl,
          objectUrls, videoHandles, last>>

appVars == <<assets, selectedAssets, isProcessing, output, command, videoUrl>>

---------------------------------------------------------------------------
(* Bounds of the model *)

MaxFiles == 2       \* files dropped on the Library in a run of the pipeline model
MaxReq == 2         \* artifacts made or requested in a run of the pipeline model
MaxSeeds == 1       \* files dropped on the Library in a run of the render-stage model
MaxId == 2          \* asset ids generated in a run of the render-stage model
MaxRuns == 2        \* artifacts made or requested in a run of the render-stage model
MaxRaceId == 3      \* asset ids generated in a run of the repeated-click model
MaxRaceRuns == 1    \* artifacts made or requested in a run of the repeated-click model
MaxRacers == 2      \* import / reload handlers suspended at the same time there
MaxSwapSeeds == 1   \* files dropped on the Library in a run of the replaced-artifact model
MaxSwapId == 3      \* asset ids generated in a run of the replaced-artifact model
MaxSwapRuns == 2    \* artifacts made or requested in a run of the replaced-artifact model
MaxConvSeeds == 1   \* files dropped on the Library in a run of the failed-conversion model
MaxConvId == 2      \* asset ids generated in a run of the failed-conversion model
MaxConvRuns == 1    \* artifacts made or requested in a run of the failed-conversion model
MaxBatch == 2       \* files in one drop on the Library
MaxStoreId == 3     \* asset ids generated in a run of the asset-store model
MaxIngestId == 3    \* asset ids generated in a run of the ingestion model
MaxComposeId == 3   \* asset ids generated in a run of the Compose-area drop model
MaxThumbId == 2     \* asset ids generated in a run of the thumbnail generator model
MaxStallId == 2     \* asset ids generated in a run of the stalled-thumbnail model
MaxClassId == 3     \* asset ids generated in a run of the classification model

NoUrl == 0
NoCommand == "null"
Commands == {"cmdA", "cmdB"}

---------------------------------------------------------------------------
(* Pure helpers *)



RECURSIVE FilterOutId(_, _)
FilterOutId(s, id) ==
    IF s = <<>> THEN <<>>
    ELSE IF Head(s).id = id THEN FilterOutId(Tail(s), id)
         ELSE <<Head(s)>> \o FilterOutId(Tail(s), id)

\* characters of a prompt: a blank and a letter
SP == " "
Prompts == {<<>>, <<SP>>, <<"m">>}

RECURSIVE TrimStart(_)
TrimStart(s) == IF s # <<>> /\ Head(s) = SP THEN TrimStart(Tail(s)) ELSE s

RECURSIVE TrimEnd(_)
TrimEnd(s) ==
    IF s # <<>> /\ s[Len(s)] = SP THEN TrimEnd(SubSeq(s, 1, Len(s) - 1)) ELSE s

trim(s) == TrimEnd(TrimStart(s))

\* JavaScript truthiness of a string: the empty string is falsy
Truthy(s) == s # <<>>

\* a handler t reaches an await, resp. is resumed from it
Suspend(bag, t) == bag (+) SetToBag({t})

Resume(bag, t) == bag (-) SetToBag({t})

---------------------------------------------------------------------------
(* Lines of the Process Log, tagged by the mark that starts the line *)

LineReady     == [tag |-> "ready",   text |-> "Ready to process your media"]
LineNoFiles   == [tag |-> "warning", text |-> "Please add files to the Create grid first"]
LineNoPrompt  == [tag |-> "warning", text |-> "Please enter a prompt"]
LineStart     == [tag |-> "info",    text |-> "Starting FFmpeg processing..."]
LineUpload    == [tag |-> "ok",      text |-> "Uploading files..."]
LineAnalyze   == [tag |-> "ok",      text |-> "Analyzing media files..."]
LineGenerate  == [tag |-> "ok",      text |-> "Generating FFmpeg command with AI..."]
LineGenerated == [tag |-> "ok",      text |-> "Generated command"]
LineProcess   == [tag |-> "ok",      text |-> "Processing video..."]
LineSuccess   == [tag |-> "success", text |-> "Video generated successfully!"]
LineError     == [tag |-> "error",   text |-> "Error"]

---------------------------------------------------------------------------
(* Initial state: the state of App and PreviewCanvas after the first render *)

Init ==
    /\ assets = <<>>
    /\ selectedAssets = <<>>
    /\ isProcessing = FALSE
    /\ output = <<LineReady>>
    /\ command = NoCommand
    /\ videoUrl = NoUrl
    /\ prompt = <<>>
    /\ importedVideoUrl = NoUrl
    /\ reloadedVideoUrl = NoUrl
    /\ requests = 0
    /\ tasks = EmptyBag
    /\ nextId = 0
    /\ nextUrl = 0
    /\ objectUrls = {}
    /\ videoHandles = 0
    /\ last = [op |-> "none", held |-> NoUrl]

---------------------------------------------------------------------------
(* Asset Store: Library (EditorSidebar) and Composition (App) *)

HasId(s, id) == \E i \in 1..Len(s) : s[i].id = id
\* A handler that appends to the Composition as it is, without looking for the id
AddToCurrentUnchecked(closureSel, currentSel, asset) == Append(currentSel, asset)

\* A handler that appends without looking for the id
AddWithoutCheck(closureSel, currentSel, asset) == Append(closureSel, asset)

\* handleAddAssetToCreate as called through a closure: closureSel is the
\* selectedAssets of the render the closure was created in, currentSel the state
\* at the time of the call.  No setSelectedAssets call is made when the id is found.
handleAddAssetToCreate(closureSel, currentSel, asset) ==
    IF HasId(closureSel, asset.id) THEN currentSel ELSE Append(closureSel, asset)

\* promotion into Library by onAddAsset: present afterwards, not duplicated
promoteToLibrary(lib, asset) ==
    IF HasId(lib, asset.id) THEN lib ELSE Append(lib, asset)

\* onClearAssets: empties the Composition
onClearAssets(sel) == <<>>

\* EditorSidebar.onDrop with a batch of one image file: no thumbnail is generated,
\* so the handler runs to its onAssetsChange call without suspending
SidebarDropImage ==
    /\ nextId' = nextId + 1
    /\ assets' = Append(assets, [id |-> nextId + 1, type |-> "image", file |-> NoUrl,
                                 thumbnail |-> "objectUrl"])
    /\ objectUrls' = objectUrls \cup {nextId + 1}
    /\ UNCHANGED <<selectedAssets, isProcessing, output, command, videoUrl, prompt,
                   importedVideoUrl, reloadedVideoUrl, requests, tasks, nextUrl, videoHandles>>

\* s.startsWith(p), on strings taken as sequences of tokens
StartsWith(s, p) == Len(s) >= Len(p) /\ SubSeq(s, 1, Len(p)) = p

\* getFileType: the kind is read off the declared media type, image by default
getFileType(file) ==
    IF StartsWith(file.mime, <<"image", "/">>) THEN "image"
    ELSE IF StartsWith(file.mime, <<"video", "/">>) THEN "video"
    ELSE IF StartsWith(file.mime, <<"audio", "/">>) THEN "audio"
    ELSE "image"

\* how generateVideoThumbnail ends for a video file: a frame was encoded, the
\* video failed to load, the canvas gave no drawing context, toBlob gave null
Outcomes == {"encoded", "loadFailed", "noContext", "nullBlob"}

ImageFile == [mime |-> <<"image", "/", "png">>, ext |-> ".png", outcome |-> "none"]

VideoFile(outcome) == [mime |-> <<"video", "/", "mp4">>, ext |-> ".mp4", outcome |-> outcome]

\* Files that can be dropped on the Library
Files == {ImageFile} \cup {VideoFile(o) : o \in Outcomes}

\* A generator that releases the object URL of the video after a capture only
RevokesAfterCaptureOnly(outcome) == outcome = "encoded"

\* EditorSidebar.generateVideoThumbnail: URL.revokeObjectURL(video.src) runs in
\* the finally of onseeked (frame encoded, no context, null blob) and in onerror
RevokesSource(outcome) ==
    \/ outcome \in {"encoded", "noContext", "nullBlob"}
    \/ outcome = "loadFailed"

\* EditorSidebar.generateVideoThumbnail resolves with the object URL of the frame
Resolves(outcome) == outcome = "encoded"

Batches == UNION {[1..n -> Files] : n \in 1..MaxBatch}

\* the asset onDrop pushes for a file: an image gets an object URL of the file, a
\* video the captured frame, or the empty string when the capture failed
DroppedAsset(id, file) ==
    [id |-> id, type |-> getFileType(file), file |-> NoUrl,
     thumbnail |-> IF getFileType(file) # "video" THEN "objectUrl"
                   ELSE IF Resolves(file.outcome) THEN "frame" ELSE ""]

\* the object URLs URL.createObjectURL made for the thumbnails of the assets in
\* made: one of the file for an image, one of the frame for a captured video
PreviewUrls(made) ==
    {made[i].id : i \in {j \in 1..Len(made) : made[j].thumbnail \in {"objectUrl", "frame"}}}

\* the loop of onDrop from one suspension point to the next: the files before the
\* first video are pushed without suspending
RECURSIVE RunDrop(_, _, _)
RunDrop(files, made, id) ==
    IF files = <<>> \/ getFileType(Head(files)) = "video"
    THEN [files |-> files, made |-> made, id |-> id]
    ELSE RunDrop(Tail(files), Append(made, DroppedAsset(id + 1, Head(files))), id + 1)

\* the onDrop handler suspended on await generateVideoThumbnail(file): lib is the
\* assets prop of the render the drop happened in, files the files still to be
\* looked at (the first is the video awaited), made the newAssets so far
DropTask(lib, files, made) == [kind |-> "drop", lib |-> lib, files |-> files, made |-> made]

\* onAssetsChange([...assets, ...newAssets]) at the end of onDrop
DropEnds(closureLib, currentLib, made) == closureLib \o made

\* EditorSidebar.onDrop up to its first await, or to its end when the batch
\* holds no video
onDrop(batch) ==
    LET r == RunDrop(batch, <<>>, nextId)
    IN  /\ nextId' = r.id
        /\ objectUrls' = objectUrls \cup PreviewUrls(r.made)
        /\ IF r.files = <<>>
           THEN /\ assets' = DropEnds(assets, assets, r.made)
                /\ tasks' = tasks
                /\ videoHandles' = videoHandles
           ELSE /\ assets' = assets
                /\ tasks' = Suspend(tasks, DropTask(assets, r.files, r.made))
                /\ videoHandles' = videoHandles + 1
        /\ UNCHANGED <<selectedAssets, isProcessing, output, command, videoUrl, prompt,
                       importedVideoUrl, reloadedVideoUrl, requests, nextUrl>>

\* the object URLs of videos allocated and not revoked, after a generation
\* settled with the outcome: its own is revoked or not, and the handler
\* allocates the next (video.src = URL.createObjectURL(file)) if it goes on
\* to another video
AfterSettle(handles, outcome, goesOn) ==
    handles - (IF RevokesSource(outcome) THEN 1 ELSE 0) + (IF goesOn THEN 1 ELSE 0)

\* A handler without the catch: a failed thumbnail ends it and nothing of the
\* batch reaches the Library
ThumbnailSettledUncaught(t) ==
    LET r == RunDrop(Tail(t.files),
                     Append(t.made, DroppedAsset(nextId + 1, Head(t.files))),
                     nextId + 1)
    IN  /\ t.kind = "drop"
        /\ videoHandles' = AfterSettle(videoHandles, Head(t.files).outcome,
                                       Resolves(Head(t.files).outcome) /\ r.files # <<>>)
        /\ IF ~Resolves(Head(t.files).outcome)
           THEN /\ nextId' = nextId /\ assets' = assets /\ tasks' = Resume(tasks, t)
                /\ objectUrls' = objectUrls
           ELSE /\ nextId' = r.id
                /\ objectUrls' = objectUrls \cup PreviewUrls(r.made)
                /\ IF r.files = <<>>
                   THEN /\ assets' = t.lib \o r.made
                        /\ tasks' = Resume(tasks, t)
                   ELSE /\ assets' = assets
                        /\ tasks' = Suspend(Resume(tasks, t), DropTask(t.lib, r.files, r.made))
        /\ UNCHANGED <<selectedAssets, isProcessing, output, command, videoUrl, prompt,
                       importedVideoUrl, reloadedVideoUrl, requests, nextUrl>>

\* generateVideoThumbnail settled for the video the handler t waits for: the
\* failure is caught, the asset is pushed and the loop goes on
ThumbnailSettled(t) ==
    LET r == RunDrop(Tail(t.files),
                     Append(t.made, DroppedAsset(nextId + 1, Head(t.files))),
                     nextId + 1)
    IN  /\ t.kind = "drop"
        /\ nextId' = r.id
        /\ objectUrls' = objectUrls \cup PreviewUrls(r.made)
        /\ videoHandles' = AfterSettle(videoHandles, Head(t.files).outcome, r.files # <<>>)
        /\ IF r.files = <<>>
           THEN /\ assets' = DropEnds(t.lib, assets, r.made)
                /\ tasks' = Resume(tasks, t)
           ELSE /\ assets' = assets
                /\ tasks' = Suspend(Resume(tasks, t), DropTask(t.lib, r.files, r.made))
        /\ UNCHANGED <<selectedAssets, isProcessing, output, command, videoUrl, prompt,
                       importedVideoUrl, reloadedVideoUrl, requests, nextUrl>>

\* A removal from the Library that takes the asset out of the Composition too
removeAssetEverywhere(i) ==
    /\ assets' = FilterOutId(assets, assets[i].id)
    /\ selectedAssets' = FilterOutId(selectedAssets, assets[i].id)
    /\ UNCHANGED <<isProcessing, output, command, videoUrl, prompt,
                   importedVideoUrl, reloadedVideoUrl, requests, tasks, nextId, nextUrl,
                   objectUrls, videoHandles>>

\* EditorSidebar.removeAsset: the remove button of a Library card
removeAsset(i) ==
    /\ assets' = FilterOutId(assets, assets[i].id)
    /\ UNCHANGED <<selectedAssets, isProcessing, output, command, videoUrl, prompt,
                   importedVideoUrl, reloadedVideoUrl, requests, tasks, nextId, nextUrl,
                   objectUrls, videoHandles>>

\* the add button of a Library card: onAddAssetToCreate(asset)
AddToCompose(i) ==
    /\ selectedAssets' = handleAddAssetToCreate(selectedAssets, selectedAssets, assets[i])
    /\ UNCHANGED <<assets, isProcessing, output, command, videoUrl, prompt,
                   importedVideoUrl, reloadedVideoUrl, requests, tasks, nextId, nextUrl,
                   objectUrls, videoHandles>>

\* the remove button of a Composition card
handleRemoveAssetFromCreate(i) ==
    /\ selectedAssets' = FilterOutId(selectedAssets, selectedAssets[i].id)
    /\ UNCHANGED <<assets, isProcessing, output, command, videoUrl, prompt,
                   importedVideoUrl, reloadedVideoUrl, requests, tasks, nextId, nextUrl,
                   objectUrls, videoHandles>>

\* A clear button that empties the Library with the Composition
ClearAllAndLibrary ==
    /\ Len(selectedAssets) # 0
    /\ selectedAssets' = onClearAssets(selectedAssets)
    /\ assets' = <<>>
    /\ UNCHANGED <<isProcessing, output, command, videoUrl, prompt,
                   importedVideoUrl, reloadedVideoUrl, requests, tasks, nextId, nextUrl,
                   objectUrls, videoHandles>>

\* the "Clear all files" button, disabled while the Composition is empty
ClearAllClick ==
    /\ Len(selectedAssets) # 0
    /\ selectedAssets' = onClearAssets(selectedAssets)
    /\ UNCHANGED <<assets, isProcessing, output, command, videoUrl, prompt,
                   importedVideoUrl, reloadedVideoUrl, requests, tasks, nextId, nextUrl,
                   objectUrls, videoHandles>>

---------------------------------------------------------------------------
(* Render Stage Controller: the effect that resets the dedup markers *)
\* Markers that outlive the artifact they were set for
MarkerNeverReset(oldUrl, newUrl, marker) == marker

\* useEffect(..., [videoUrl]): runs after a render in which videoUrl differs
MarkerAfterEffect(oldUrl, newUrl, marker) ==
    IF newUrl # oldUrl THEN NoUrl ELSE marker

---------------------------------------------------------------------------
(* Composition Request Pipeline *)

\* onChange of the prompt field
SetPrompt(p) ==
    /\ p # prompt
    /\ prompt' = p
    /\ UNCHANGED <<appVars, importedVideoUrl, reloadedVideoUrl, requests, tasks,
                   nextId, nextUrl, objectUrls, videoHandles>>

\* A dispatch that goes on writing below the log of the previous run
DispatchAppending ==
    /\ isProcessing' = TRUE
    /\ output' = output \o <<LineStart, LineUpload, LineAnalyze, LineGenerate>>
    /\ command' = NoCommand
    /\ videoUrl' = NoUrl
    /\ importedVideoUrl' = MarkerAfterEffect(videoUrl, NoUrl, importedVideoUrl)
    /\ reloadedVideoUrl' = MarkerAfterEffect(videoUrl, NoUrl, reloadedVideoUrl)
    /\ requests' = requests + 1
    /\ UNCHANGED <<assets, selectedAssets, prompt, tasks, nextId, nextUrl, objectUrls, videoHandles>>

\* A dispatch that keeps the artifact of the previous run on display
DispatchKeepingArtifact ==
    /\ isProcessing' = TRUE
    /\ output' = <<LineStart, LineUpload, LineAnalyze, LineGenerate>>
    /\ command' = NoCommand
    /\ requests' = requests + 1
    /\ UNCHANGED <<assets, selectedAssets, videoUrl, prompt, importedVideoUrl,
                   reloadedVideoUrl, tasks, nextId, nextUrl, objectUrls, videoHandles>>

\* the first statements of a run that passed the checks, up to the await:
\* the log is replaced, command and videoUrl are cleared, the request is sent
Dispatch ==
    /\ isProcessing' = TRUE
    /\ output' = <<LineStart, LineUpload, LineAnalyze, LineGenerate>>
    /\ command' = NoCommand
    /\ videoUrl' = NoUrl
    /\ importedVideoUrl' = MarkerAfterEffect(videoUrl, NoUrl, importedVideoUrl)
    /\ reloadedVideoUrl' = MarkerAfterEffect(videoUrl, NoUrl, reloadedVideoUrl)
    /\ requests' = requests + 1
    /\ UNCHANGED <<assets, selectedAssets, prompt, tasks, nextId, nextUrl, objectUrls, videoHandles>>

\* A rejection that appends its line to the log
RejectedAppending(line) ==
    /\ output' = Append(output, line)
    /\ UNCHANGED <<assets, selectedAssets, isProcessing, command, videoUrl, prompt,
                   importedVideoUrl, reloadedVideoUrl, requests, tasks, nextId, nextUrl,
                   objectUrls, videoHandles>>

\* a check of handleProcess failed: setOutput(line) and return
Rejected(line) ==
    /\ output' = <<line>>
    /\ UNCHANGED <<assets, selectedAssets, isProcessing, command, videoUrl, prompt,
                   importedVideoUrl, reloadedVideoUrl, requests, tasks, nextId,
                   nextUrl, objectUrls, videoHandles>>

\* A pipeline entry that does not look at the Create grid
handleProcessNoFilesCheck(p) ==
    IF ~Truthy(trim(p)) THEN Rejected(LineNoPrompt) ELSE Dispatch

\* handleProcess(p), up to its first await
handleProcess(p) ==
    IF Len(selectedAssets) = 0 THEN Rejected(LineNoFiles)
    ELSE IF ~Truthy(trim(p)) THEN Rejected(LineNoPrompt)
    ELSE Dispatch

\* A send that passes every prompt on to onProcess
handleSendPromptUnchecked == handleProcess(prompt)

\* handleSendPrompt: passes a prompt that is not blank on to onProcess
handleSendPrompt ==
    IF Truthy(trim(prompt))
    THEN handleProcess(prompt)
    ELSE UNCHANGED <<appVars, prompt, importedVideoUrl, reloadedVideoUrl, requests,
                     tasks, nextId, nextUrl, objectUrls, videoHandles>>

\* the Generate button: disabled={!prompt.trim() || isProcessing}
GenerateDisabled == ~Truthy(trim(prompt)) \/ isProcessing

GenerateClick ==
    /\ ~GenerateDisabled
    /\ handleSendPrompt

\* handlePromptKeyDown: Enter without Shift in the prompt field
EnterKey == handleSendPrompt

\* the await of apiService.processVideo resolves with command c and a video
ProcessSuccess(c) ==
    /\ requests > 0
    /\ command' = c
    /\ output' = output \o <<LineGenerated, LineProcess, LineSuccess>>
    /\ nextUrl' = nextUrl + 1
    /\ videoUrl' = nextUrl + 1
    /\ importedVideoUrl' = MarkerAfterEffect(videoUrl, nextUrl + 1, importedVideoUrl)
    /\ reloadedVideoUrl' = MarkerAfterEffect(videoUrl, nextUrl + 1, reloadedVideoUrl)
    /\ isProcessing' = FALSE
    /\ requests' = requests - 1
    /\ UNCHANGED <<assets, selectedAssets, prompt, tasks, nextId, objectUrls, videoHandles>>

\* A failure handler that sends the request again
ProcessFailureRetrying ==
    /\ requests > 0
    /\ output' = Append(output, LineError)
    /\ isProcessing' = FALSE
    /\ requests' = requests
    /\ UNCHANGED <<assets, selectedAssets, command, videoUrl, prompt, importedVideoUrl,
                   reloadedVideoUrl, tasks, nextId, nextUrl, objectUrls, videoHandles>>

\* the await rejects: network error, error response, or the client timeout
ProcessFailure ==
    /\ requests > 0
    /\ output' = Append(output, LineError)
    /\ isProcessing' = FALSE
    /\ requests' = requests - 1
    /\ UNCHANGED <<assets, selectedAssets, command, videoUrl, prompt, importedVideoUrl,
                   reloadedVideoUrl, tasks, nextId, nextUrl, objectUrls, videoHandles>>

---------------------------------------------------------------------------
(* Render Stage Controller: download, import to Library, reload to Compose *)

\* the asset built from the artifact at url; the thumbnail falls back to the
\* video URL when generateThumbnailFromVideo rejects
RenderedAsset(id, url, thumbOk) ==
    [id |-> id, type |-> "video", file |-> url,
     thumbnail |-> IF thumbOk THEN "frame" ELSE "videoUrl"]

\* the handler record kept across the awaits: videoUrl and the onAddAsset prop
\* (with the selectedAssets it closes over) of the render the click happened in.
\* The handler changes no state between its awaits, so the record does not say
\* which await it is suspended on.
Task(kind, url, sel) == [kind |-> kind, url |-> url, sel |-> sel]

\* An import guard that never recognises the artifact
NeverImported(marker, url) == FALSE

\* An import guard that takes the marker for a flag: set means imported
AnyImported(marker, url) == marker # NoUrl

\* handleImportToLibrary's test "this video has already been imported"
AlreadyImported(marker, url) == marker = url

\* handleReloadToCompose's test "this video has already been reloaded"
AlreadyReloaded(marker, url) == marker = url

\* A download offered once per artifact: not after the artifact was imported
DownloadUnlessImported ==
    /\ videoUrl # NoUrl
    /\ importedVideoUrl # videoUrl
    /\ UNCHANGED <<appVars, prompt, importedVideoUrl, reloadedVideoUrl, requests, tasks,
                   nextId, nextUrl, objectUrls, videoHandles>>

\* handleDownloadVideo: saves the binary, no state of the application changes
DownloadClick ==
    /\ videoUrl # NoUrl
    /\ UNCHANGED <<appVars, prompt, importedVideoUrl, reloadedVideoUrl, requests, tasks,
                   nextId, nextUrl, objectUrls, videoHandles>>

\* handleImportToLibrary up to its first await (the buttons exist while videoUrl is set)
ImportClick ==
    /\ videoUrl # NoUrl
    /\ tasks' = IF AlreadyImported(importedVideoUrl, videoUrl)
                THEN tasks
                ELSE Suspend(tasks, Task("import", videoUrl, selectedAssets))
    /\ UNCHANGED <<appVars, prompt, importedVideoUrl, reloadedVideoUrl, requests,
                   nextId, nextUrl, objectUrls, videoHandles>>

\* handleReloadToCompose up to its first await: onClearAssets() runs before the fetch
ReloadClick ==
    /\ videoUrl # NoUrl
    /\ IF AlreadyReloaded(reloadedVideoUrl, videoUrl)
       THEN UNCHANGED <<tasks, selectedAssets>>
       ELSE /\ selectedAssets' = onClearAssets(selectedAssets)
            /\ tasks' = Suspend(tasks, Task("reload", videoUrl, selectedAssets))
    /\ UNCHANGED <<assets, isProcessing, output, command, videoUrl, prompt,
                   importedVideoUrl, reloadedVideoUrl, requests, nextId, nextUrl, objectUrls, videoHandles>>

\* A failed retrieval that marks the artifact as done all the same
TaskFetchFailedMarks(t) ==
    /\ tasks' = Resume(tasks, t)
    /\ importedVideoUrl' = IF t.kind = "import" THEN t.url ELSE importedVideoUrl
    /\ reloadedVideoUrl' = IF t.kind = "reload" THEN t.url ELSE reloadedVideoUrl
    /\ UNCHANGED <<appVars, prompt, requests, nextId, nextUrl, objectUrls, videoHandles>>

\* await fetch(videoUrl) or await response.blob() rejects: the outer catch logs
\* and the handler ends
TaskFetchFailed(t) ==
    /\ tasks' = Resume(tasks, t)
    /\ UNCHANGED <<appVars, prompt, importedVideoUrl, reloadedVideoUrl, requests,
                   nextId, nextUrl, objectUrls, videoHandles>>

\* A completion that adds the asset to the Composition only
TaskSettledWithoutPromotion(t, thumbOk) ==
    /\ thumbOk => videoUrl # NoUrl
    /\ nextId' = nextId + 1
    /\ LET asset == RenderedAsset(nextId + 1, t.url, thumbOk)
       IN  /\ selectedAssets' = handleAddAssetToCreate(t.sel, selectedAssets, asset)
           /\ assets' = assets
    /\ importedVideoUrl' = IF t.kind = "import" THEN t.url ELSE importedVideoUrl
    /\ reloadedVideoUrl' = IF t.kind = "reload" THEN t.url ELSE reloadedVideoUrl
    /\ tasks' = Resume(tasks, t)
    /\ objectUrls' = IF thumbOk THEN objectUrls \cup {nextId + 1} ELSE objectUrls
    /\ UNCHANGED <<isProcessing, output, command, videoUrl, prompt, requests, nextUrl, videoHandles>>

\* A completion that marks the artifact held now, not the one it worked on
TaskSettledMarksHeld(t, thumbOk) ==
    /\ thumbOk => videoUrl # NoUrl
    /\ nextId' = nextId + 1
    /\ LET asset == RenderedAsset(nextId + 1, t.url, thumbOk)
       IN  /\ selectedAssets' = handleAddAssetToCreate(t.sel, selectedAssets, asset)
           /\ assets' = promoteToLibrary(assets, asset)
    /\ importedVideoUrl' = IF t.kind = "import" THEN videoUrl ELSE importedVideoUrl
    /\ reloadedVideoUrl' = IF t.kind = "reload" THEN videoUrl ELSE reloadedVideoUrl
    /\ tasks' = Resume(tasks, t)
    /\ objectUrls' = IF thumbOk THEN objectUrls \cup {nextId + 1} ELSE objectUrls
    /\ UNCHANGED <<isProcessing, output, command, videoUrl, prompt, requests, nextUrl, videoHandles>>

\* the binary was retrieved and generateThumbnailFromVideo settled (it rejects at
\* once when no video element is mounted): the asset is built, onAddAsset(asset)
\* is called through the closure and the marker is set to the closure's videoUrl
TaskSettled(t, thumbOk) ==
    /\ thumbOk => videoUrl # NoUrl
    /\ nextId' = nextId + 1
    /\ LET asset == RenderedAsset(nextId + 1, t.url, thumbOk)
       IN  /\ selectedAssets' = handleAddAssetToCreate(t.sel, selectedAssets, asset)
           /\ assets' = promoteToLibrary(assets, asset)
    /\ importedVideoUrl' = IF t.kind = "import" THEN t.url ELSE importedVideoUrl
    /\ reloadedVideoUrl' = IF t.kind = "reload" THEN t.url ELSE reloadedVideoUrl
    /\ tasks' = Resume(tasks, t)
    /\ objectUrls' = IF thumbOk THEN objectUrls \cup {nextId + 1} ELSE objectUrls
    /\ UNCHANGED <<isProcessing, output, command, videoUrl, prompt, requests, nextUrl, videoHandles>>

\* PreviewCanvas.generateVideoThumbnail: URL.revokeObjectURL(video.src) runs in
\* the toBlob callback (frame encoded, no context, null blob) and in onerror
RevokesSourceCanvas(outcome) ==
    \/ outcome \in {"encoded", "noContext", "nullBlob"}
    \/ outcome = "loadFailed"

\* PreviewCanvas.generateVideoThumbnail resolves when toBlob gives a blob; without
\* a drawing context ctx?.drawImage is skipped and the blank canvas is encoded
ResolvesCanvas(outcome) == outcome \in {"encoded", "noContext"}

\* the asset PreviewCanvas.onDrop hands to onAddAsset for a file
ComposeDroppedAsset(id, file) ==
    [id |-> id, type |-> getFileType(file), file |-> NoUrl,
     thumbnail |-> IF getFileType(file) # "video" THEN "objectUrl"
                   ELSE IF ResolvesCanvas(file.outcome) THEN "frame" ELSE ""]

\* onAddAsset(asset) as called in the loop of PreviewCanvas.onDrop: the callback
\* of the render the handler was created in adds the asset to the Composition
onAddAsset(closureSel, currentSel, asset) ==
    handleAddAssetToCreate(closureSel, currentSel, asset)

\* the loop of PreviewCanvas.onDrop from one suspension point to the next: sel is
\* the selectedAssets the onAddAsset of the handler closes over, cur and lib the
\* Composition and the Library as the calls made so far leave them
RECURSIVE RunComposeDrop(_, _, _, _, _, _)
RunComposeDrop(files, sel, cur, lib, id, urls) ==
    IF files = <<>> \/ getFileType(Head(files)) = "video"
    THEN [files |-> files, cur |-> cur, lib |-> lib, id |-> id, urls |-> urls]
    ELSE LET asset == ComposeDroppedAsset(id + 1, Head(files))
         IN  RunComposeDrop(Tail(files), sel, onAddAsset(sel, cur, asset),
                            promoteToLibrary(lib, asset), id + 1, urls \cup {id + 1})

\* the PreviewCanvas.onDrop handler suspended on await generateVideoThumbnail(file)
ComposeTask(sel, files) == [kind |-> "composeDrop", sel |-> sel, files |-> files]

\* PreviewCanvas.onDrop up to its first await, or to its end when the batch
\* holds no video
onComposeDrop(batch) ==
    LET r == RunComposeDrop(batch, selectedAssets, selectedAssets, assets, nextId,
                            objectUrls)
    IN  /\ nextId' = r.id
        /\ selectedAssets' = r.cur
        /\ assets' = r.lib
        /\ objectUrls' = r.urls
        /\ IF r.files = <<>>
           THEN tasks' = tasks /\ videoHandles' = videoHandles
           ELSE /\ tasks' = Suspend(tasks, ComposeTask(selectedAssets, r.files))
                /\ videoHandles' = videoHandles + 1
        /\ UNCHANGED <<isProcessing, output, command, videoUrl, prompt,
                       importedVideoUrl, reloadedVideoUrl, requests, nextUrl>>

\* generateVideoThumbnail settled for the video the handler t waits for: the
\* asset is handed to onAddAsset and the loop goes on
ComposeThumbnailSettled(t) ==
    LET asset == ComposeDroppedAsset(nextId + 1, Head(t.files))
        urls == IF asset.thumbnail = "frame" THEN objectUrls \cup {nextId + 1}
                ELSE objectUrls
        r == RunComposeDrop(Tail(t.files), t.sel, onAddAsset(t.sel, selectedAssets, asset),
                            promoteToLibrary(assets, asset), nextId + 1, urls)
    IN  /\ t.kind = "composeDrop"
        /\ nextId' = r.id
        /\ selectedAssets' = r.cur
        /\ assets' = r.lib
        /\ objectUrls' = r.urls
        /\ videoHandles' = (videoHandles
                             - (IF RevokesSourceCanvas(Head(t.files).outcome) THEN 1 ELSE 0))
                            + (IF r.files # <<>> THEN 1 ELSE 0)
        /\ tasks' = IF r.files = <<>> THEN Resume(tasks, t)
                    ELSE Suspend(Resume(tasks, t), ComposeTask(t.sel, r.files))
        /\ UNCHANGED <<isProcessing, output, command, videoUrl, prompt,
                       importedVideoUrl, reloadedVideoUrl, requests, nextUrl>>

---------------------------------------------------------------------------
(* Specifications.  The event loop runs one handler, or one continuation of a  *)
(* handler, at a time.  last.op names the handler of the step when the step   *)
(* is one a property below is about, and is "none" after any other step;       *)
(* after an invocation of the pipeline, last.held is the artifact that was     *)
(* held when it was invoked.                                                   *)

Saw(name) == last' = [op |-> name, held |-> NoUrl]

SawTrigger(name) == last' = [op |-> name, held |-> videoUrl]

\* The pipeline with the Asset Store: no terminal action is taken on the artifact
PipelineNext ==
    \/ nextId < MaxFiles /\ SidebarDropImage /\ Saw("none")
    \/ \E i \in 1..Len(assets) :
         AddToCompose(i)
           /\ Saw(IF HasId(selectedAssets, assets[i].id) THEN "addAgain" ELSE "add")
    \/ \E i \in 1..Len(selectedAssets) : handleRemoveAssetFromCreate(i) /\ Saw("none")
    \/ ClearAllClick /\ Saw("none")
    \/ \E p \in Prompts : SetPrompt(p) /\ Saw("none")
    \/ nextUrl + requests < MaxReq /\ GenerateClick /\ SawTrigger("generateClick")
    \/ nextUrl + requests < MaxReq /\ EnterKey /\ SawTrigger("enterKey")
    \/ \E c \in Commands : ProcessSuccess(c) /\ Saw("processSuccess")
    \/ ProcessFailure /\ Saw("processFailure")

PipelineSpec == Init /\ [][PipelineNext]_vars

\* The Render Stage Controller with the pipeline that feeds it: generation is
\* started with the Generate button, so that one request is in flight at a time,
\* and the terminal actions are used in succession: a click starts a handler
\* only when no handler is suspended
RenderNext ==
    \/ nextId < MaxSeeds /\ SidebarDropImage /\ Saw("none")
    \/ \E i \in 1..Len(assets) : AddToCompose(i) /\ Saw("none")
    \/ ClearAllClick /\ Saw("none")
    \/ SetPrompt(<<"m">>) /\ Saw("none")
    \/ nextUrl + requests < MaxRuns /\ GenerateClick /\ Saw("none")
    \/ \E c \in Commands : ProcessSuccess(c) /\ Saw("none")
    \/ ProcessFailure /\ Saw("none")
    \/ (tasks = EmptyBag \/ AlreadyImported(importedVideoUrl, videoUrl))
         /\ ImportClick /\ Saw("importClick")
    \/ (tasks = EmptyBag \/ AlreadyReloaded(reloadedVideoUrl, videoUrl))
         /\ ReloadClick /\ Saw("none")
    \/ \E t \in BagToSet(tasks) : TaskFetchFailed(t) /\ Saw("none")
    \/ \E t \in BagToSet(tasks) :
         nextId < MaxId /\ TaskSettled(t, videoUrl # NoUrl) /\ Saw("none")

RenderSpec == Init /\ [][RenderNext]_vars

\* Repeated clicks on the terminal actions of one artifact: a second handler may
\* start while the first is suspended
RaceNext ==
    \/ nextId < MaxSeeds /\ SidebarDropImage /\ Saw("none")
    \/ \E i \in 1..Len(assets) : AddToCompose(i) /\ Saw("none")
    \/ ClearAllClick /\ Saw("none")
    \/ SetPrompt(<<"m">>) /\ Saw("none")
    \/ nextUrl + requests < MaxRaceRuns /\ GenerateClick /\ Saw("none")
    \/ \E c \in Commands : ProcessSuccess(c) /\ Saw("none")
    \/ ProcessFailure /\ Saw("none")
    \/ (BagCardinality(tasks) < MaxRacers \/ AlreadyImported(importedVideoUrl, videoUrl))
         /\ ImportClick /\ Saw("importClick")
    \/ (BagCardinality(tasks) < MaxRacers \/ AlreadyReloaded(reloadedVideoUrl, videoUrl))
         /\ ReloadClick /\ Saw("reloadClick")
    \/ \E t \in BagToSet(tasks) : TaskFetchFailed(t) /\ Saw("none")
    \/ \E t \in BagToSet(tasks) :
         nextId < MaxRaceId /\ TaskSettled(t, videoUrl # NoUrl) /\ Saw(t.kind)

RaceSpec == Init /\ [][RaceNext]_vars

\* An artifact is replaced by the next one while a handler of a terminal action
\* may still be suspended; the handlers are started in succession
SwapNext ==
    \/ nextId < MaxSwapSeeds /\ SidebarDropImage /\ Saw("none")
    \/ \E i \in 1..Len(assets) : AddToCompose(i) /\ Saw("none")
    \/ SetPrompt(<<"m">>) /\ Saw("none")
    \/ nextUrl + requests < MaxSwapRuns /\ GenerateClick /\ Saw("none")
    \/ \E c \in Commands : ProcessSuccess(c) /\ Saw("processSuccess")
    \/ (tasks = EmptyBag \/ AlreadyImported(importedVideoUrl, videoUrl))
         /\ ImportClick /\ Saw("importClick")
    \/ (tasks = EmptyBag \/ AlreadyReloaded(reloadedVideoUrl, videoUrl))
         /\ ReloadClick /\ Saw("reloadClick")
    \/ \E t \in BagToSet(tasks) :
         nextId < MaxSwapId /\ TaskSettled(t, videoUrl # NoUrl) /\ Saw(t.kind)
    \/ DownloadClick /\ Saw(IF last.op \in {"download", "downloadAgain"}
                             THEN "downloadAgain" ELSE "download")

SwapSpec == Init /\ [][SwapNext]_vars

\* The conversion of the artifact into an asset may fail: the retrieval of the
\* binary rejects, or the capture of the thumbnail rejects (it always does when
\* no video element is mounted); the handlers are started in succession
ConvertNext ==
    \/ nextId < MaxConvSeeds /\ SidebarDropImage /\ Saw("none")
    \/ \E i \in 1..Len(assets) : AddToCompose(i) /\ Saw("none")
    \/ SetPrompt(<<"m">>) /\ Saw("none")
    \/ nextUrl + requests < MaxConvRuns /\ GenerateClick /\ Saw("none")
    \/ ClearAllClick /\ Saw("clearAll")
    \/ \E c \in Commands : ProcessSuccess(c) /\ Saw("none")
    \/ (tasks = EmptyBag \/ AlreadyImported(importedVideoUrl, videoUrl))
         /\ ImportClick /\ Saw("importClick")
    \/ (tasks = EmptyBag \/ AlreadyReloaded(reloadedVideoUrl, videoUrl))
         /\ ReloadClick /\ Saw("reloadClick")
    \/ \E t \in BagToSet(tasks) :
         TaskFetchFailed(t)
           /\ Saw(IF t.kind = "import" THEN "importFetchFailed" ELSE "reloadFetchFailed")
    \/ \E t \in BagToSet(tasks) : \E thumbOk \in BOOLEAN :
         nextId < MaxConvId /\ TaskSettled(t, thumbOk)
           /\ Saw(IF thumbOk THEN t.kind
                  ELSE IF t.kind = "import" THEN "importThumbFailed"
                  ELSE "reloadThumbFailed")

ConvertSpec == Init /\ [][ConvertNext]_vars

\* The Asset Store alone: single images dropped on the Library and the buttons
\* of the cards
StoreNext ==
    \/ nextId < MaxStoreId /\ SidebarDropImage /\ Saw("none")
    \/ \E i \in 1..Len(assets) : removeAsset(i) /\ Saw("removeAsset")
    \/ \E i \in 1..Len(assets) : AddToCompose(i) /\ Saw("none")
    \/ \E i \in 1..Len(selectedAssets) :
         handleRemoveAssetFromCreate(i) /\ Saw("removeFromCreate")
    \/ ClearAllClick /\ Saw("clearAll")

StoreSpec == Init /\ [][StoreNext]_vars

\* the number of files the suspended onDrop handlers have still to push
RECURSIVE FilesOf(_, _)
FilesOf(bag, S) ==
    IF S = {} THEN 0
    ELSE LET t == CHOOSE x \in S : TRUE
         IN  CopiesIn(t, bag) * Len(t.files) + FilesOf(bag, S \ {t})

PendingFiles == FilesOf(tasks, BagToSet(tasks))

\* Ingestion into the Library: batches dropped on it, whose handlers may be
\* suspended on a thumbnail and complete in any order, and removals meanwhile
IngestNext ==
    \/ \E batch \in Batches :
         nextId + PendingFiles + Len(batch) <= MaxIngestId /\ onDrop(batch)
           /\ Saw(IF \E k \in 1..Len(batch) : getFileType(batch[k]) = "video"
                  THEN "dropSuspended" ELSE "dropSync")
    \/ \E t \in BagToSet(tasks) :
         ThumbnailSettled(t)
           /\ Saw(IF \E k \in 2..Len(t.files) : getFileType(t.files[k]) = "video"
                  THEN "dropSuspended" ELSE "dropDone")
    \/ \E i \in 1..Len(assets) : removeAsset(i) /\ Saw("removeAsset")

IngestSpec == Init /\ [][IngestNext]_vars

\* Drops on the Compose area: batches whose handlers may be suspended on a
\* thumbnail, and the buttons of the Composition cards meanwhile
ComposeNext ==
    \/ \E batch \in Batches :
         nextId + PendingFiles + Len(batch) <= MaxComposeId /\ onComposeDrop(batch)
           /\ Saw(IF \E k \in 1..Len(batch) : getFileType(batch[k]) = "video"
                  THEN "composeDropSuspended" ELSE "composeDropSync")
    \/ \E t \in BagToSet(tasks) :
         ComposeThumbnailSettled(t)
           /\ Saw(IF \E k \in 2..Len(t.files) : getFileType(t.files[k]) = "video"
                  THEN "composeDropSuspended" ELSE "composeDropDone")
    \/ \E i \in 1..Len(selectedAssets) :
         handleRemoveAssetFromCreate(i) /\ Saw("removeFromCreate")

ComposeSpec == Init /\ [][ComposeNext]_vars

\* The thumbnail generators of both drop areas at work
ThumbNext ==
    \/ \E batch \in Batches :
         nextId + PendingFiles + Len(batch) <= MaxThumbId /\ onDrop(batch)
           /\ Saw("drop")
    \/ \E batch \in Batches :
         nextId + PendingFiles + Len(batch) <= MaxThumbId /\ onComposeDrop(batch)
           /\ Saw("composeDrop")
    \/ \E t \in BagToSet(tasks) :
         t.kind = "drop" /\ ThumbnailSettled(t) /\ Saw(Head(t.files).outcome)
    \/ \E t \in BagToSet(tasks) :
         t.kind = "composeDrop" /\ ComposeThumbnailSettled(t)
           /\ Saw(Head(t.files).outcome)

ThumbSpec == Init /\ [][ThumbNext]_vars

\* a video whose thumbnail generation never settles: neither onseeked nor
\* onerror is ever delivered
StalledVideo == VideoFile("pending")

StallBatches == UNION {[1..n -> Files \cup {StalledVideo}] : n \in 1..MaxBatch}

\* the continuation of a drop handler whose awaited generation settles
SettlesSome ==
    \E t \in BagToSet(tasks) : Head(t.files).outcome \in Outcomes /\ ThumbnailSettled(t)

\* Ingestion into the Library where a thumbnail generation may never settle
StallNext ==
    \/ \E batch \in StallBatches :
         nextId + PendingFiles + Len(batch) <= MaxStallId /\ onDrop(batch)
           /\ Saw(IF \E k \in 1..Len(batch) : getFileType(batch[k]) = "video"
                  THEN "dropSuspended" ELSE "dropSync")
    \/ SettlesSome /\ Saw("settled")

\* every generation that can settle does: the browser delivers its events
StallSpec == Init /\ [][StallNext]_vars /\ WF_vars(SettlesSome /\ Saw("settled"))

\* declared media types of dropped files: the empty one is a file the browser
\* knows no type for
MimeTypes ==
    {<<"image", "/", "png">>, <<"video", "/", "mp4">>, <<"audio", "/", "mpeg">>, <<>>}

\* extensions from the accept lists of the dropzone, one of each kind
Extensions == {".png", ".mp4", ".mp3"}

\* files the dropzone of the Library accepts, by media type or by extension;
\* the thumbnail of those taken for a video is captured
ClassFiles == {[mime |-> mt, ext |-> e, outcome |-> "encoded"] : mt \in MimeTypes, e \in Extensions}

\* Files of every declared type and extension dropped on the Library one by one
ClassifyNext ==
    \/ \E f \in ClassFiles :
         nextId + PendingFiles < MaxClassId /\ onDrop(<<f>>)
           /\ Saw(IF getFileType(f) = "video" THEN "dropSuspended" ELSE "dropSync")
    \/ \E t \in BagToSet(tasks) : ThumbnailSettled(t) /\ Saw("dropDone")
    \/ \E i \in 1..Len(assets) : removeAsset(i) /\ Saw("removeAsset")

ClassifySpec == Init /\ [][ClassifyNext]_vars

---------------------------------------------------------------------------
(* Properties                                                                *)

LastLine(log) == log[Len(log)]

\* the number of entries of a collection that were made from artifact url
Derived(s, url) == Cardinality({i \in 1..Len(s) : s[i].file = url})

\* the number of entries of a collection that carry the id
WithId(s, id) == Cardinality({i \in 1..Len(s) : s[i].id = id})

\* the step is an invocation of the pipeline from the prompt bar
Triggered == last'.op \in {"generateClick", "enterKey"}

\* the step settles a handler of the named terminal action
Settles(t, kind) == t.kind = kind /\ TaskSettled(t, videoUrl # NoUrl)

\* C1: an import of the held artifact r adds one asset derived from r to the
\* Library and marks r as imported; an import clicked after that, with r still
\* held, starts nothing and adds nothing.
C1_SecondImportAddsNothing ==
    [][ /\ \A t \in BagToSet(tasks) :
             Settles(t, "import") =>
               /\ Derived(assets', t.url) = Derived(assets, t.url) + 1
               /\ Len(assets') = Len(assets) + 1
               /\ importedVideoUrl' = t.url
        /\ (last'.op = "importClick" /\ importedVideoUrl = videoUrl) =>
               UNCHANGED <<assets, selectedAssets, tasks, importedVideoUrl>>
      ]_vars

C1_Witness ==
    /\ last.op = "importClick"
    /\ videoUrl # NoUrl
    /\ importedVideoUrl = videoUrl
    /\ Derived(assets, videoUrl) = 1
    /\ tasks = EmptyBag

\* C2: no import of an artifact r adds an asset once an import of r has added
\* one, however the imports of r were interleaved.
C2_RepeatedImportAddsAtMostOne ==
    [][ \A t \in BagToSet(tasks) :
          Settles(t, "import") => ~AlreadyImported(importedVideoUrl, t.url)
      ]_vars

\* C3: when a reload to the Composition completes, the Composition consists of
\* the converted asset and nothing else.
C3_ReloadLeavesOnlyConvertedAsset ==
    [][ \A t \in BagToSet(tasks) :
          Settles(t, "reload") =>
            /\ Len(selectedAssets') = 1
            /\ selectedAssets'[1].id = nextId'
            /\ selectedAssets'[1].file = t.url
      ]_vars

\* C4: an invocation of the pipeline while it is busy sends no request and
\* changes neither the log nor the held artifact, and there is never more than
\* one request outstanding.
C4_BusyInvocationIsNoOp ==
    [][ /\ (Triggered /\ isProcessing) =>
              UNCHANGED <<requests, output, videoUrl, command>>
        /\ requests' <= 1
      ]_vars

\* C5: adding an asset to the Composition leaves exactly one entry with its id
\* there, and adding an asset that is already there changes nothing.
C5_AddToCompositionIsIdempotent ==
    [][ \A i \in 1..Len(assets) :
          AddToCompose(i) =>
            /\ WithId(selectedAssets', assets[i].id) = 1
            /\ HasId(selectedAssets, assets[i].id) => selectedAssets' = selectedAssets
      ]_vars

C5_Witness ==
    /\ last.op = "addAgain"
    /\ Len(selectedAssets) = 2
    /\ \A i \in 1..Len(selectedAssets) : WithId(selectedAssets, selectedAssets[i].id) = 1

\* C6 as stated: after a run that fails, the artifact held is the one that was
\* held when the run was triggered (here for a run that fails before anything
\* else happens).
C6_FailedRunKeepsArtifact ==
    [][ (last.op \in {"generateClick", "enterKey"} /\ requests = 1
           /\ last'.op = "processFailure") =>
          videoUrl' = last.held
      ]_vars

\* C6 amended: dispatching a run discards the held artifact and its command, and
\* a failure installs nothing: it leaves the artifact and the command as they
\* are at that moment, so that after a failure with no success logged since the
\* last dispatch, no artifact is held.
C6_FailedRunInstallsNothing ==
    [][ /\ (Triggered /\ requests' = requests + 1) =>
              (videoUrl' = NoUrl /\ command' = NoCommand)
        /\ (last'.op = "processFailure") =>
              UNCHANGED <<videoUrl, command>>
        /\ (last'.op = "processFailure" /\ output[1] = LineStart
              /\ \A i \in 1..Len(output) : output[i] # LineSuccess) =>
              videoUrl' = NoUrl
      ]_vars

C6_Witness ==
    /\ last.op = "processFailure"
    /\ nextUrl >= 1
    /\ requests = 0
    /\ videoUrl = NoUrl
    /\ LastLine(output) = LineError

\* C7: an invocation of the pipeline with a prompt that is not blank and an
\* empty Composition leaves the warning about missing files in the log, sends
\* no request, does not set the busy flag and leaves the held artifact alone.
C7_EmptyCompositionIsRejected ==
    [][ (Triggered /\ Truthy(trim(prompt)) /\ Len(selectedAssets) = 0) =>
          /\ LastLine(output') = LineNoFiles
          /\ LastLine(output').tag = "warning"
          /\ UNCHANGED <<requests, isProcessing, videoUrl, command>>
      ]_vars

C7_Witness ==
    /\ last.op \in {"generateClick", "enterKey"}
    /\ Truthy(trim(prompt))
    /\ Len(selectedAssets) = 0
    /\ LastLine(output) = LineNoFiles
    /\ ~isProcessing
    /\ requests = 0

C9_RejectionAppendsOneLine ==
    [][ (Triggered /\ Truthy(trim(prompt)) /\ Len(selectedAssets) = 0) =>
          \E line \in {LineNoFiles, LineNoPrompt} : output' = Append(output, line)
      ]_vars

\* C9 amended: a precondition failure replaces the log by one warning line; the
\* lines that were there are not kept.
C9_RejectionReplacesLog ==
    [][ (Triggered /\ Truthy(trim(prompt)) /\ Len(selectedAssets) = 0) =>
          /\ Len(output') = 1
          /\ output'[1].tag = "warning"
      ]_vars

C9_Witness ==
    /\ last.op \in {"generateClick", "enterKey"}
    /\ output = <<LineNoFiles>>
    /\ nextUrl >= 1
    /\ requests = 0
    /\ command # NoCommand

\* C10: when a run succeeds with command c, the log ends with the success line,
\* the artifact held is a new one with command c, the busy flag is down and
\* neither marker is set.
C10_SuccessfulRunPostcondition ==
    [][ \A c \in Commands :
          ProcessSuccess(c) =>
            /\ LastLine(output').tag = "success"
            /\ command' = c
            /\ videoUrl' = nextUrl' /\ videoUrl' # videoUrl /\ videoUrl' # NoUrl
            /\ ~isProcessing'
            /\ importedVideoUrl' = NoUrl
            /\ reloadedVideoUrl' = NoUrl
      ]_vars

\* a handler of the previous artifact settled while the run was in flight (its
\* thumbnail is the fallback), and the success of the run unset its marker
C10_Witness ==
    /\ LastLine(output) = LineSuccess
    /\ command # NoCommand
    /\ ~isProcessing
    /\ videoUrl = 2
    /\ importedVideoUrl = NoUrl
    /\ reloadedVideoUrl = NoUrl
    /\ \E i \in 1..Len(assets) : assets[i].file = 1 /\ assets[i].thumbnail = "videoUrl"

\* C11: an import clicked on a held artifact from which no asset was made yet
\* starts a handler, whatever the import marker says about an earlier artifact
\* (also when the import of the earlier artifact completed after this one
\* arrived), and the handler adds a Library entry made from the held artifact
\* when it completes.
C11_ImportOnNewArtifactNotSuppressed ==
    [][ /\ (last'.op = "importClick" /\ Derived(assets, videoUrl) = 0) =>
              tasks' = Suspend(tasks, Task("import", videoUrl, selectedAssets))
        /\ \A t \in BagToSet(tasks) :
             (Settles(t, "import") /\ t.url = videoUrl) =>
               /\ Derived(assets', videoUrl) = Derived(assets, videoUrl) + 1
               /\ importedVideoUrl' = videoUrl
      ]_vars

\* the import of artifact 1 completed after artifact 2 arrived and left its
\* marker; the import clicked on artifact 2 has started all the same
C11_Witness ==
    /\ last.op = "importClick"
    /\ videoUrl = 2
    /\ importedVideoUrl = 1
    /\ Derived(assets, 1) = 1
    /\ \E t \in BagToSet(tasks) : t.kind = "import" /\ t.url = 2

\* C12 as stated: while an artifact is held, each marker is unset or names that
\* artifact (it is unset from the arrival of the artifact until an import,
\* resp. reload, of that artifact succeeds).
C12_MarkersUnsetUntilUsed ==
    videoUrl # NoUrl =>
        /\ importedVideoUrl \in {NoUrl, videoUrl}
        /\ reloadedVideoUrl \in {NoUrl, videoUrl}

\* C12 amended: the arrival of a new artifact unsets both markers; afterwards a
\* marker is set only by the completion of a handler of its action, to the
\* artifact that handler was started on, so that a marker names the held artifact
\* only after an import, resp. reload, of the held artifact has succeeded.  A
\* handler of the previous artifact that completes late does set its marker, to
\* the previous artifact.
C12_MarkerNamesArtifactOfItsHandler ==
    [][ /\ (videoUrl' # videoUrl /\ videoUrl' # NoUrl) =>
              (importedVideoUrl' = NoUrl /\ reloadedVideoUrl' = NoUrl)
        /\ (importedVideoUrl' # importedVideoUrl /\ importedVideoUrl' # NoUrl) =>
              \E t \in BagToSet(tasks) :
                  /\ t.kind = "import" /\ t.url = importedVideoUrl'
                  /\ tasks' = Resume(tasks, t)
        /\ (reloadedVideoUrl' # reloadedVideoUrl /\ reloadedVideoUrl' # NoUrl) =>
              \E t \in BagToSet(tasks) :
                  /\ t.kind = "reload" /\ t.url = reloadedVideoUrl'
                  /\ tasks' = Resume(tasks, t)
        /\ (videoUrl' # NoUrl /\ videoUrl' \in {importedVideoUrl', reloadedVideoUrl'}) =>
              Derived(assets', videoUrl') >= 1
      ]_vars

\* the reload of artifact 1 completed after artifact 2 arrived: its marker
\* names artifact 1 while artifact 2 is held
C12_Witness ==
    /\ last.op = "reload"
    /\ videoUrl = 2
    /\ reloadedVideoUrl = 1
    /\ importedVideoUrl = NoUrl
    /\ tasks = EmptyBag

\* C13 as stated: an import whose retrieval of the binary or whose capture of
\* the thumbnail fails adds no asset to either collection and leaves the import
\* marker as it is.
C13_FailedImportChangesNothing ==
    [][ last'.op \in {"importFetchFailed", "importThumbFailed"} =>
          UNCHANGED <<assets, selectedAssets, importedVideoUrl>>
      ]_vars

\* C13 amended: an import whose retrieval of the binary fails adds no asset to
\* either collection and leaves the import marker as it is, and an import clicked
\* next on the same artifact starts a handler; an import whose capture of the
\* thumbnail fails still adds its asset, with the URL of the artifact for a
\* thumbnail, and marks the artifact as imported.
C13_OnlyFailedRetrievalAbortsImport ==
    [][ /\ last'.op = "importFetchFailed" =>
              UNCHANGED <<assets, selectedAssets, importedVideoUrl, reloadedVideoUrl>>
        /\ (last.op = "importFetchFailed" /\ last'.op = "importClick") =>
              tasks' = Suspend(tasks, Task("import", videoUrl, selectedAssets))
        /\ last'.op = "importThumbFailed" =>
              /\ Len(assets') = Len(assets) + 1
              /\ assets'[Len(assets')].thumbnail = "videoUrl"
              /\ \E t \in BagToSet(tasks) :
                    /\ t.kind = "import" /\ tasks' = Resume(tasks, t)
                    /\ assets'[Len(assets')].file = t.url
                    /\ importedVideoUrl' = t.url
      ]_vars

\* the capture failed with the video element mounted: the asset is in the Library
\* and the artifact is marked
C13_Witness ==
    /\ last.op = "importThumbFailed"
    /\ videoUrl # NoUrl
    /\ importedVideoUrl = videoUrl
    /\ \E i \in 1..Len(assets) :
          assets[i].file = videoUrl /\ assets[i].thumbnail = "videoUrl"

\* C14: a reload whose retrieval of the binary or whose capture of the thumbnail
\* fails leaves the Composition as it was when the reload was clicked, the
\* Library unchanged and the reload marker as it is (here for a reload that fails
\* before anything else happens).
C14_FailedReloadChangesNothing ==
    [][ \A t \in BagToSet(tasks) :
          ( /\ t.kind = "reload"
            /\ last.op = "reloadClick"
            /\ last'.op \in {"reloadFetchFailed", "reloadThumbFailed"}
            /\ tasks' = Resume(tasks, t) ) =>
              /\ selectedAssets' = t.sel
              /\ assets' = assets
              /\ reloadedVideoUrl' = reloadedVideoUrl
      ]_vars

\* C15: a removal from the Composition leaves the Library as it is, and a
\* removal from the Library leaves the Composition as it is: an asset that was in
\* both stays in the other one.
C15_RemovalsAreIndependent ==
    [][ /\ last'.op = "removeFromCreate" => assets' = assets
        /\ last'.op = "removeAsset" => selectedAssets' = selectedAssets
      ]_vars

\* an asset was removed from the Library and is still in the Composition
C15_Witness ==
    /\ last.op = "removeAsset"
    /\ \E i \in 1..Len(selectedAssets) : ~HasId(assets, selectedAssets[i].id)

\* the step completes the suspended onDrop handler t
DropCompletes(t) ==
    t.kind = "drop" /\ last'.op = "dropDone" /\ tasks' = Resume(tasks, t)

\* the last n entries of a collection
Newest(s, n) == SubSeq(s, Len(s) - n + 1, Len(s))

IdsOf(s) == {s[i].id : i \in 1..Len(s)}

\* C16: when a drop on the Library completes, every file of the batch is an
\* asset at the end of the Library, in the order of the batch, a video whose
\* thumbnail failed with an empty thumbnail.
C16_FailedThumbnailStillIngested ==
    [][ \A t \in BagToSet(tasks) :
             DropCompletes(t) =>
               LET n == Len(t.made) + Len(t.files)
                   new == Newest(assets', n)
               IN  /\ Len(assets') >= n
                   /\ \A j \in 1..Len(t.made) : new[j] = t.made[j]
                   /\ \A j \in 1..Len(t.files) :
                        LET a == new[Len(t.made) + j]
                        IN  /\ a.type = getFileType(t.files[j])
                            /\ (a.thumbnail = "") <=>
                                 (t.files[j].outcome \in Outcomes \ {"encoded"})
      ]_vars

\* a batch of a video that does not decode and an image has completed
C16_Witness ==
    /\ last.op = "dropDone"
    /\ nextId = 2
    /\ Len(assets) = 2
    /\ assets[1] = [id |-> 1, type |-> "video", file |-> NoUrl, thumbnail |-> ""]
    /\ assets[2] = [id |-> 2, type |-> "image", file |-> NoUrl, thumbnail |-> "objectUrl"]
    /\ tasks = EmptyBag

\* C17: the completion of a drop adds the assets of its batch to the Library as
\* it is at that moment: what other batches added meanwhile stays, and what was
\* removed meanwhile does not come back.
C17_CompletionKeepsInterleavedChanges ==
    [][ \A t \in BagToSet(tasks) :
          DropCompletes(t) =>
            LET n == Len(t.made) + Len(t.files)
            IN  /\ Len(assets') >= n
                /\ IdsOf(assets') = IdsOf(assets) \cup IdsOf(Newest(assets', n))
      ]_vars

\* the ids of the assets held by the Library or the Composition
Referenced(lib, sel) == IdsOf(lib) \cup IdsOf(sel)

\* C18: a removal (from the Library, from the Composition, or the clearing of the
\* Composition) that takes an asset out of the last collection holding it
\* releases the asset's preview resource, and no step releases the preview
\* resource of an asset the Library or the Composition still holds.
C18_PreviewReleasedWithLastReference ==
    [][ /\ last'.op \in {"removeAsset", "removeFromCreate", "clearAll"} =>
             \A id \in Referenced(assets, selectedAssets) :
                 id \notin Referenced(assets', selectedAssets') => id \notin objectUrls'
        /\ \A id \in objectUrls :
             id \in Referenced(assets', selectedAssets') => id \in objectUrls'
      ]_vars

\* C19: a download leaves the Library, the Composition, the held artifact, busy,
\* the log and both markers as they were, and it can be invoked whenever an
\* artifact is held, whatever the markers hold and however often it was invoked.
C19_DownloadChangesNothing ==
    [][ /\ last'.op \in {"download", "downloadAgain"} =>
             UNCHANGED <<assets, selectedAssets, videoUrl, command, isProcessing, output,
                         importedVideoUrl, reloadedVideoUrl, requests, tasks>>
        /\ videoUrl # NoUrl => ENABLED DownloadClick
      ]_vars

\* a download repeated at once of an artifact that was imported and reloaded
C19_Witness ==
    /\ last.op = "downloadAgain"
    /\ importedVideoUrl = videoUrl
    /\ reloadedVideoUrl = videoUrl

\* C20: a failed run appends an error line to the log, sets busy to false and
\* sends no request: the request that failed is over and none takes its place.
\* A request is sent only by a step of a user trigger, and one at most per step.
C20_FailedRunIsNotRetried ==
    [][ /\ last'.op = "processFailure" =>
             /\ output' = Append(output, LineError)
             /\ LastLine(output').tag = "error"
             /\ isProcessing' = FALSE
             /\ requests' = requests - 1
        /\ requests' > requests => (Triggered /\ requests' = requests + 1)
      ]_vars

\* the first run failed and no request is in flight
C20_Witness ==
    /\ last.op = "processFailure"
    /\ LastLine(output) = LineError
    /\ ~isProcessing
    /\ requests = 0
    /\ nextUrl = 0

\* a step of a user trigger that passed the checks and sent a request
Dispatched == Triggered /\ requests' = requests + 1

\* C21: at the dispatch of an invocation that passed the preconditions the log is
\* reset: right after the dispatch it consists of a single line, and no line of
\* an earlier invocation is in it.
C21_DispatchLeavesOneLine ==
    [][ Dispatched => (Len(output') = 1 /\ output'[1] = LineStart) ]_vars

\* C21 amended: right after the dispatch the log consists of the start line and
\* the three progress lines written before the request is sent, whatever the log
\* held before: no line of an earlier invocation is kept.
C21_DispatchResetsLog ==
    [][ Dispatched =>
          /\ output' = <<LineStart, LineUpload, LineAnalyze, LineGenerate>>
          /\ \A i \in 1..Len(output') :
                output'[i] \notin {LineGenerated, LineProcess, LineSuccess, LineError,
                                   LineNoFiles, LineNoPrompt, LineReady}
      ]_vars

\* a second invocation was dispatched over the log of a completed one
C21_Witness ==
    /\ last.op \in {"generateClick", "enterKey"}
    /\ nextUrl >= 1
    /\ requests = 1
    /\ isProcessing
    /\ output = <<LineStart, LineUpload, LineAnalyze, LineGenerate>>

Succeeds(t, kind) ==
    /\ t.kind = kind
    /\ last'.op \in {kind, kind \o "ThumbFailed"}
    /\ tasks' = Resume(tasks, t)

C24_HandleReleasedOnEveryOutcome ==
    videoHandles = BagCardinality(tasks)

\* a generation that found no drawing context has settled and no video URL is
\* allocated any more
C24_Witness ==
    /\ last.op = "noContext"
    /\ tasks = EmptyBag
    /\ videoHandles = 0
    /\ nextId >= 1

\* the asset with the id was built by a drop handler that is still suspended
Made(id) == \E t \in BagToSet(tasks) : t.kind = "drop" /\ HasId(t.made, id)

\* C25: ingestion does not wait for the whole batch: an item of a batch that
\* needs no thumbnail, or whose thumbnail is there, gets into the Library in
\* the end, even if the thumbnail of another item of the batch never settles.
C25_ReadyItemsReachLibrary ==
    \A id \in 1..MaxStallId : Made(id) ~> HasId(assets, id)

\* no two entries of the collection have the same id
UniqueIds(s) == \A i, j \in 1..Len(s) : s[i].id = s[j].id => i = j

KindOfExtension(ext) ==
    IF ext = ".mp4" THEN "video" ELSE IF ext = ".mp3" THEN "audio" ELSE "image"

\* the kind a file is to get: that of its declared media type if it starts with
\* image/, video/ or audio/, else that of its extension
ClaimedKind(file) ==
    IF \E major \in {"image", "video", "audio"} : StartsWith(file.mime, <<major, "/">>)
    THEN file.mime[1]
    ELSE KindOfExtension(file.ext)

\* C27: a dropped file gets the kind of its declared media type when that starts
\* with image/, video/ or audio/, and the kind of its file name extension when
\* the declared type is absent or none of these.
C27_KindByTypeThenExtension ==
    [][ /\ \A f \in ClassFiles :
             (onDrop(<<f>>) /\ tasks' = tasks) =>
                 assets'[Len(assets')].type = ClaimedKind(f)
        /\ \A t \in BagToSet(tasks) :
             DropCompletes(t) =>
                 assets'[Len(assets')].type = ClaimedKind(t.files[Len(t.files)])
      ]_vars

\* C28: busy is true in every state in which a generation request is
\* outstanding, that is dispatched and neither succeeded nor failed.
C28_BusyWhileRequestOutstanding ==
    requests > 0 => isProcessing

\* C29: an import that succeeds adds the converted asset to the Library only:
\* the Composition is the same after it as before.
C29_ImportLeavesComposition ==
    [][ \A t \in BagToSet(tasks) :
          Succeeds(t, "import") => selectedAssets' = selectedAssets
      ]_vars

\* C30: a batch of k files dropped on the Compose area adds k entries to the
\* Composition: whenever the handler of a batch adds files, every asset it
\* builds is in the Composition afterwards, and so is every entry that was
\* there, those of earlier files of the batch included.
C30_ComposeDropKeepsEveryEntry ==
    [][ /\ \A batch \in Batches :
             (onComposeDrop(batch) /\ tasks' = tasks) =>
                 Len(selectedAssets') = Len(selectedAssets) + Len(batch)
        /\ (\E batch \in Batches : onComposeDrop(batch))
             \/ (\E t \in BagToSet(tasks) : ComposeThumbnailSettled(t))
             => /\ (nextId + 1)..nextId' \subseteq IdsOf(selectedAssets')
                /\ IdsOf(selectedAssets) \subseteq IdsOf(selectedAssets')
      ]_vars

====
